---- MODULE Spec2Model ----
(***************************************************************************)
(* A model of sync_esde_sd.py: filtering a master gamelist down to the     *)
(* ROMs present on the SD card, copying the matching media, and the        *)
(* read-only audit of the same data.                                       *)
(*                                                                         *)
(* Text is modelled as TLA+ strings; a character is a string of length 1.  *)
(* Paths are POSIX-style (no drive letters); the only whitespace character *)
(* is the blank.                                                           *)
(***************************************************************************)
EXTENDS Integers, Sequences, FiniteSets, TLC

(***************************************************************************)
(* Text primitives (Python str / pathlib behaviour)                        *)
(***************************************************************************)
Ch(s, i) == SubSeq(s, i, i)

UPPER == "ABCDEFGHIJKLMNOPQRSTUVWXYZ"
LOWER == "abcdefghijklmnopqrstuvwxyz"
DIGITS == "0123456789"

CharsOf(s) == {Ch(s, i) : i \in 1..Len(s)}

LowerMap == [c \in CharsOf(UPPER) |-> Ch(LOWER, CHOOSE i \in 1..Len(UPPER) : Ch(UPPER, i) = c)]

LowerCh(c) == IF c \in DOMAIN LowerMap THEN LowerMap[c] ELSE c

RECURSIVE MapChars(_, _)
\* s with every character c replaced by Op-table lookup; used for lower() and replace()
MapChars(s, kind) ==
    IF s = "" THEN ""
    ELSE LET c == Head(s)
             d == CASE kind = "lower" -> LowerCh(c)
                    [] kind = "slash" -> (IF c = "\\" THEN "/" ELSE c)
                    [] OTHER -> c
         IN d \o MapChars(Tail(s), kind)

\* str.lower()
StrLower(s) == MapChars(s, "lower")

\* str.replace("\\", "/")
ReplaceBackslash(s) == MapChars(s, "slash")

IsSpace(c) == c = " "

RECURSIVE LStrip(_)
LStrip(s) == IF s # "" /\ IsSpace(Head(s)) THEN LStrip(Tail(s)) ELSE s

RECURSIVE RStrip(_)
RStrip(s) == IF s # "" /\ IsSpace(Ch(s, Len(s))) THEN RStrip(SubSeq(s, 1, Len(s) - 1)) ELSE s

\* str.strip()
Strip(s) == RStrip(LStrip(s))

\* str.startswith(prefix)
StartsWith(s, prefix) == Len(prefix) <= Len(s) /\ SubSeq(s, 1, Len(prefix)) = prefix

\* "needle in s" for strings
Contains(s, needle) ==
    \E i \in 1..(Len(s) - Len(needle) + 1) : SubSeq(s, i, i + Len(needle) - 1) = needle

RECURSIVE SplitAcc(_, _, _)
SplitAcc(s, sep, cur) ==
    IF s = "" THEN <<cur>>
    ELSE IF Head(s) = sep THEN <<cur>> \o SplitAcc(Tail(s), sep, "")
    ELSE SplitAcc(Tail(s), sep, cur \o Head(s))

\* str.split(sep) for a one-character separator
Split(s, sep) == SplitAcc(s, sep, "")

\* the last index of character c in s, 0 when absent (str.rfind + 1)
RFind(s, c) == IF \E i \in 1..Len(s) : Ch(s, i) = c
               THEN CHOOSE i \in 1..Len(s) : Ch(s, i) = c /\ \A j \in (i+1)..Len(s) : Ch(s, j) # c
               ELSE 0

\* PurePath(p).name: the last path component, "" when there is none
PathName(p) ==
    LET parts == SelectSeq(Split(p, "/"), LAMBDA x : x # "" /\ x # ".")
    IN IF Len(parts) = 0 THEN "" ELSE parts[Len(parts)]

\* PurePath(name).stem: the name without its last suffix
PathStem(name) ==
    LET i == RFind(name, ".")
    IN IF 1 < i /\ i < Len(name) THEN SubSeq(name, 1, i - 1) ELSE name

(***************************************************************************)
(* Filename normalizers                                                    *)
(***************************************************************************)
\* "if p.startswith('./'): p = p[2:]"
StripDotSlash(p) == IF StartsWith(p, "./") THEN SubSeq(p, 3, Len(p)) ELSE p

\* normalize_rom_filename_from_xml
normalize_rom_filename_from_xml(path_text) ==
    StrLower(PathName(StripDotSlash(ReplaceBackslash(Strip(path_text)))))

AlnumLower == CharsOf(LOWER) \cup CharsOf(DIGITS)

IsAlnumLower(c) == c \in AlnumLower

RECURSIVE SubRuns(_, _, _)
\* re.sub(r"<class>+", " ", s): every maximal run of characters of the class
\* becomes one blank; inRun says the previous character was of the class
SubRuns(s, kind, inRun) ==
    IF s = "" THEN ""
    ELSE LET c == Head(s)
             hit == IF kind = "punct" THEN ~IsAlnumLower(c) /\ ~IsSpace(c) ELSE IsSpace(c)
         IN IF hit
            THEN (IF inRun THEN "" ELSE " ") \o SubRuns(Tail(s), kind, TRUE)
            ELSE c \o SubRuns(Tail(s), kind, FALSE)

\* normalize_stem_loose
normalize_stem_loose(stem) ==
    Strip(SubRuns(SubRuns(StrLower(stem), "punct", FALSE), "space", FALSE))

(***************************************************************************)
(* Program constants                                                       *)
(***************************************************************************)
MEDIA_CATEGORIES_ALL ==
    << "3dboxes", "backcovers", "covers", "custom", "fanart", "manuals", "marquees",
       "miximages", "physicalmedia", "screenshots", "titlescreens", "videos" >>

Range(seq) == {seq[i] : i \in 1..Len(seq)}

CategorySet == Range(MEDIA_CATEGORIES_ALL)

\* Python's None
None == "<None>"

(***************************************************************************)
(* Media index                                                             *)
(*   A directory is [exists, entries]; entries is the listing in iterdir   *)
(*   order, each entry [name, is_file, size, data].  A dict is a sequence  *)
(*   of [k, v] pairs in insertion order.                                   *)
(***************************************************************************)
DictHas(d, key) == \E i \in 1..Len(d) : d[i].k = key

\* dict.get(key, [])
DictGet(d, key) ==
    IF DictHas(d, key) THEN d[CHOOSE i \in 1..Len(d) : d[i].k = key].v ELSE <<>>

\* dict.setdefault(key, []).append(f)
DictAppend(d, key, f) ==
    IF DictHas(d, key)
    THEN [i \in 1..Len(d) |-> IF d[i].k = key THEN [k |-> key, v |-> Append(d[i].v, f)] ELSE d[i]]
    ELSE Append(d, [k |-> key, v |-> <<f>>])

\* the body of the loop of build_media_index for one directory entry
IndexEntry(f, fuzzy, acc) ==
    IF ~f.is_file THEN acc
    ELSE [exact_idx |-> DictAppend(acc.exact_idx, StrLower(PathStem(f.name)), f),
          norm_idx |-> IF fuzzy
                       THEN DictAppend(acc.norm_idx, normalize_stem_loose(PathStem(f.name)), f)
                       ELSE acc.norm_idx,
          total_files |-> acc.total_files + 1]

RECURSIVE IndexEntries(_, _, _)
\* the loop of build_media_index over the listing
IndexEntries(entries, fuzzy, acc) ==
    IF entries = <<>> THEN acc
    ELSE IndexEntries(Tail(entries), fuzzy, IndexEntry(Head(entries), fuzzy, acc))

\* build_media_index
build_media_index(category_dir, fuzzy) ==
    IF ~category_dir.exists
    THEN [exact_idx |-> <<>>, norm_idx |-> <<>>, total_files |-> 0]
    ELSE IndexEntries(category_dir.entries, fuzzy,
                      [exact_idx |-> <<>>, norm_idx |-> <<>>, total_files |-> 0])


(***************************************************************************)
(* Media matching: the tiers of the sync loop and of the audit loop        *)
(***************************************************************************)
RECURSIVE PrefixScan(_, _)
\* for k, files in exact_idx.items(): if k.startswith(rom_stem): matches.extend(files)
PrefixScan(exact_idx, rom_stem) ==
    IF exact_idx = <<>> THEN <<>>
    ELSE (IF StartsWith(Head(exact_idx).k, rom_stem) THEN Head(exact_idx).v ELSE <<>>)
         \o PrefixScan(Tail(exact_idx), rom_stem)

\* "if not matches: <prefix scan>" after the normalized lookup
OrPrefixScan(matches, exact_idx, rom_stem) ==
    IF matches = <<>> THEN PrefixScan(exact_idx, rom_stem) ELSE matches

\* "if not matches and fuzzy_media_match: <fuzzy fallbacks>" after the exact lookup
OrFuzzy(matches, exact_idx, norm_idx, rom_stem, rom_stem_norm, fuzzy_media_match) ==
    IF matches = <<>> /\ fuzzy_media_match
    THEN OrPrefixScan(DictGet(norm_idx, rom_stem_norm), exact_idx, rom_stem)
    ELSE matches

\* the sync tiers with every tier always consulted
SyncMatchesAllTiers(exact_idx, norm_idx, rom_stem, rom_stem_norm, fuzzy_media_match) ==
    DictGet(exact_idx, rom_stem)
        \o (IF fuzzy_media_match
            THEN DictGet(norm_idx, rom_stem_norm) \o PrefixScan(exact_idx, rom_stem)
            ELSE <<>>)

\* filter_gamelist_and_sync_media: the matches of one category
SyncMatches(exact_idx, norm_idx, rom_stem, rom_stem_norm, fuzzy_media_match) ==
    OrFuzzy(DictGet(exact_idx, rom_stem), exact_idx, norm_idx, rom_stem, rom_stem_norm,
            fuzzy_media_match)

\* "if not matches: <prefix scan>" of the audit loop
AuditOrPrefixScan(matches, exact_idx, rom_stem) ==
    IF matches = <<>> THEN PrefixScan(exact_idx, rom_stem) ELSE matches

\* "if not matches and fuzzy_media_match: <fuzzy fallbacks>" of the audit loop
AuditOrFuzzy(matches, exact_idx, norm_idx, rom_stem, rom_stem_norm, fuzzy_media_match) ==
    IF matches = <<>> /\ fuzzy_media_match
    THEN AuditOrPrefixScan(DictGet(norm_idx, rom_stem_norm), exact_idx, rom_stem)
    ELSE matches

\* the audit matches with the exact tier only
AuditMatchesExactOnly(exact_idx, norm_idx, rom_stem, rom_stem_norm, fuzzy_media_match) ==
    DictGet(exact_idx, rom_stem)

\* audit_missing_master: the matches of one category
AuditMatches(exact_idx, norm_idx, rom_stem, rom_stem_norm, fuzzy_media_match) ==
    AuditOrFuzzy(DictGet(exact_idx, rom_stem), exact_idx, norm_idx, rom_stem, rom_stem_norm,
                 fuzzy_media_match)

(***************************************************************************)
(* Category inference                                                      *)
(***************************************************************************)
\* list.index(x) + 1; 0 when absent
IndexOf(seq, x) ==
    IF \E i \in 1..Len(seq) : seq[i] = x
    THEN CHOOSE i \in 1..Len(seq) : seq[i] = x /\ \A j \in 1..(i-1) : seq[j] # x
    ELSE 0

MapLower(seq) == [i \in 1..Len(seq) |-> StrLower(seq[i])]

\* the segments of a media reference
RefParts(text) ==
    SelectSeq(Split(ReplaceBackslash(Strip(text)), "/"), LAMBDA x : x # "" /\ x # ".")

\* "return cat if cat in MEDIA_CATEGORIES_ALL else None"
KnownOrNone(cat) == IF cat \in CategorySet THEN cat ELSE None

\* Case 3: the first segment that is a known category
FirstCategorySegment(lowered) ==
    IF \E n \in 1..Len(lowered) : lowered[n] \in CategorySet
    THEN lowered[CHOOSE n \in 1..Len(lowered) :
                    lowered[n] \in CategorySet /\ \A m \in 1..(n-1) : lowered[m] \notin CategorySet]
    ELSE None

\* Case 2, with j the place of the system among the lowered segments (0: absent)
ParseCase2(lowered, j) ==
    IF j > 0 /\ j + 1 <= Len(lowered)
    THEN KnownOrNone(lowered[j + 1])
    ELSE FirstCategorySegment(lowered)

\* Case 1, with i the place of "downloaded_media" among the segments (0: absent)
ParseCase1(lowered, i, system_lower) ==
    IF i > 0 /\ i + 2 <= Len(lowered) /\ lowered[i + 1] = system_lower
    THEN KnownOrNone(lowered[i + 2])
    ELSE ParseCase2(lowered, IndexOf(lowered, system_lower))

\* the three cases on the segments of the reference
ParseParts(parts, system_lower) ==
    ParseCase1(MapLower(parts), IndexOf(parts, "downloaded_media"), system_lower)

\* parse_category_from_media_ref
parse_category_from_media_ref(text, system) ==
    IF text = "" THEN None ELSE ParseParts(RefParts(text), StrLower(system))

\* the test that a child's text looks like a media reference
LooksLikeMediaRef(txt) ==
    \/ Contains(ReplaceBackslash(txt), "downloaded_media")
    \/ \E c \in CategorySet : Contains(StrLower(txt), c)

\* the test without "cat in selected_categories"
KeepAnyCategory(cat, selected_categories) ==
    IF cat # None THEN {cat} ELSE {}

\* "if cat and cat in selected_categories: expected.add(cat)"
KeepSelected(cat, selected_categories) ==
    IF cat # None /\ cat \in Range(selected_categories) THEN {cat} ELSE {}

\* the category a stripped child text adds to the expected set
TextCategory(txt, system, selected_categories) ==
    IF txt = "" \/ ~LooksLikeMediaRef(txt) THEN {}
    ELSE KeepSelected(parse_category_from_media_ref(txt, system), selected_categories)

RECURSIVE ExpectedFromChildren(_, _, _, _)
\* for child in list(game): ...
ExpectedFromChildren(children, system, selected_categories, expected) ==
    IF children = <<>> THEN expected
    ELSE ExpectedFromChildren(Tail(children), system, selected_categories,
            expected \cup (IF Head(children).text = None THEN {}
                           ELSE TextCategory(Strip(Head(children).text), system,
                                             selected_categories)))

\* expected_categories_from_game_xml; a game is the sequence of its children [tag, text]
expected_categories_from_game_xml(game, system, selected_categories) ==
    ExpectedFromChildren(game, system, selected_categories, {})

\* sorted(set of category names): MEDIA_CATEGORIES_ALL is in lexicographic order
SortedCats(set) == SelectSeq(MEDIA_CATEGORIES_ALL, LAMBDA c : c \in set)

\* "sorted(expected_from_xml) if expected_from_xml else list(effective_categories)"
OrEffective(expected_from_xml, effective_categories) ==
    IF expected_from_xml # {} THEN SortedCats(expected_from_xml) ELSE effective_categories

\* expected_categories of a game
ExpectedCategories(game, system, effective_categories) ==
    OrEffective(expected_categories_from_game_xml(game, system, effective_categories),
                effective_categories)

(***************************************************************************)
(* The SD card and the NAS master                                          *)
(*   sd_root = [roms, dirs, media, gamelists, backups, stat_error]         *)
(*     roms[system]      the relative paths of the files under ROMs/system *)
(*     dirs              the directories that exist under ES-DE            *)
(*     media             <<system, cat, name>> -> [size, data]             *)
(*     gamelists[system] [exists, well_formed, provider, games]            *)
(*     backups[system]   the .bak-<stamp> copies, oldest first (stamps are *)
(*                       taken to be distinct)                             *)
(*     stat_error        the media paths whose stat() raises OSError       *)
(*   nas_master_root = [gamelists, media]                                  *)
(*     media[system][cat] a directory [exists, entries]                    *)
(***************************************************************************)
\* iter_rom_files without the lower-casing
iter_rom_files_keep_case(rom_dir) == {PathName(p) : p \in rom_dir}

\* iter_rom_files; a missing directory and an empty one are both {}
iter_rom_files(rom_dir) == {StrLower(PathName(p)) : p \in rom_dir}

\* a directory path with all its parents
WithParents(path) == {SubSeq(path, 1, n) : n \in 1..Len(path)}

\* ensure_dir that ignores dry_run
ensure_dir_always(sd_root, path, dry_run) ==
    [sd_root EXCEPT !.dirs = @ \cup WithParents(path)]

\* ensure_dir
ensure_dir(sd_root, path, dry_run) ==
    IF dry_run THEN sd_root
    ELSE [sd_root EXCEPT !.dirs = @ \cup WithParents(path)]

\* backup_file, applied to the output gamelist of a system
backup_file(sd_root, system, dry_run) ==
    IF ~sd_root.gamelists[system].exists THEN sd_root
    ELSE IF dry_run THEN sd_root
    ELSE [sd_root EXCEPT !.backups[system] = Append(@, sd_root.gamelists[system])]

\* shutil.copy2(src, dst)
Copy2(media, src, dst) ==
    [p \in DOMAIN media \cup {dst} |->
        IF p = dst THEN [size |-> src.size, data |-> src.data] ELSE media[p]]

\* copy_file after ensure_dir. src.exists tells whether the source file is still
\* there when copy_file runs (the files listed during a run of main() are);
\* shutil.copy2 raises FileNotFoundError on a missing source: result "raised".
\* A destination just written by copy2 can be stat'ed.
CopyAfterEnsureDir(sd1, src, dst, dry_run) ==
    IF dst \in DOMAIN sd1.media /\ src.exists /\ dst \notin sd1.stat_error
          /\ sd1.media[dst].size = src.size
    THEN [result |-> "skipped", sd_root |-> sd1]
    ELSE IF dry_run THEN [result |-> "copied", sd_root |-> sd1]
    ELSE IF ~src.exists THEN [result |-> "raised", sd_root |-> sd1]
    ELSE [result |-> "copied",
          sd_root |-> [sd1 EXCEPT !.media = Copy2(@, src, dst), !.stat_error = @ \ {dst}]]

\* copy_file
copy_file(sd_root, src, dst, dry_run) ==
    CopyAfterEnsureDir(ensure_dir(sd_root, <<"downloaded_media", dst[1], dst[2]>>, dry_run),
                       src, dst, dry_run)

(***************************************************************************)
(* Sync mode: filter_gamelist_and_sync_media                               *)
(***************************************************************************)
RunStats0 ==
    [systems_seen |-> 0, systems_processed |-> 0, games_kept |-> 0,
     games_total_in_master |-> 0, media_files_copied |-> 0, media_files_skipped |-> 0,
     media_categories_attempted |-> 0, media_categories_missing |-> 0,
     categories_ignored_empty_or_missing |-> 0, gamelists_written |-> 0]

\* game.find("path").text: the text of the first <path> child; None without one
FindPath(game) ==
    IF \E n \in 1..Len(game) : game[n].tag = "path"
    THEN game[CHOOSE n \in 1..Len(game) :
                 game[n].tag = "path" /\ \A m \in 1..(n-1) : game[m].tag # "path"].text
    ELSE None

\* "path_el is None or not path_el.text"
NoPathText(game) == FindPath(game) \in {None, ""}

\* the per-category indexes of a system
CategoryIndexes(nas_master_root, system, media_categories, fuzzy_media_match) ==
    [cat \in Range(media_categories) |->
        build_media_index(nas_master_root.media[system][cat], fuzzy_media_match)]

PruneCategories(media_categories, idx) ==
    [effective_categories |-> SelectSeq(media_categories, LAMBDA cat : idx[cat].total_files > 0),
     ignored |-> Len(SelectSeq(media_categories, LAMBDA cat : ~(idx[cat].total_files > 0)))]

\* "if result == 'copied': copied += 1 else: skipped += 1"
CountCopy(acc, r) ==
    [acc EXCEPT !.sd_root = r.sd_root,
                !.stats = IF r.result = "copied"
                          THEN [@ EXCEPT !.media_files_copied = @ + 1]
                          ELSE [@ EXCEPT !.media_files_skipped = @ + 1]]

RECURSIVE CopyMatches(_, _, _, _, _)
\* for src in matches: copy_file(src, dst, dry_run) and count the result
CopyMatches(matches, system, cat, dry_run, acc) ==
    IF matches = <<>> THEN acc
    ELSE CopyMatches(Tail(matches), system, cat, dry_run,
            CountCopy(acc, copy_file(acc.sd_root, Head(matches),
                                     <<system, cat, Head(matches).name>>, dry_run)))

\* the category loop body that lists a matched category as missed too
SyncCategoryAlsoMissed(cat, matches, system, dry_run, acc) ==
    IF matches # <<>>
    THEN CopyMatches(matches, system, cat, dry_run,
                     [acc EXCEPT !.matched_cats = Append(@, cat),
                                 !.missed_cats = Append(@, cat)])
    ELSE [acc EXCEPT !.missed_cats = Append(@, cat),
                     !.stats.media_categories_missing = @ + 1]

\* "if matches: <copy them> else: <record the miss>" for one expected category
SyncCategory(cat, matches, system, dry_run, acc) ==
    IF matches # <<>>
    THEN CopyMatches(matches, system, cat, dry_run,
                     [acc EXCEPT !.matched_cats = Append(@, cat)])
    ELSE [acc EXCEPT !.missed_cats = Append(@, cat),
                     !.stats.media_categories_missing = @ + 1]

RECURSIVE SyncCategories(_, _, _, _, _, _, _)
\* for cat in expected_categories: count the attempt, match, copy or record the miss
SyncCategories(cats, idx, system, rom_stem, fuzzy_media_match, dry_run, acc) ==
    IF cats = <<>> THEN acc
    ELSE SyncCategories(Tail(cats), idx, system, rom_stem, fuzzy_media_match, dry_run,
            SyncCategory(Head(cats),
                         SyncMatches(idx[Head(cats)].exact_idx, idx[Head(cats)].norm_idx,
                                     rom_stem, normalize_stem_loose(rom_stem),
                                     fuzzy_media_match),
                         system, dry_run,
                         [acc EXCEPT !.stats.media_categories_attempted = @ + 1]))

\* "new_root.append(deepcopy(game))" and the per-ROM report of a kept game
AppendGame(game, rom_filename, expected, acc) ==
    [acc EXCEPT !.new_games = Append(@, game),
                !.report = Append(@, [rom_filename |-> rom_filename, expected |-> expected,
                                      matched |-> acc.matched_cats,
                                      missed |-> acc.missed_cats])]

\* the loop body for a game that is kept
KeepGame(game, rom_filename, expected, idx, system, fuzzy_media_match, dry_run, acc) ==
    AppendGame(game, rom_filename, expected,
        SyncCategories(expected, idx, system, StrLower(PathStem(rom_filename)),
                       fuzzy_media_match, dry_run,
                       [acc EXCEPT !.kept = @ + 1, !.stats.games_kept = @ + 1,
                                   !.matched_cats = <<>>, !.missed_cats = <<>>]))

\* the loop body for a game with a path: "if rom_filename not in rom_filenames: continue"
SyncNamedGame(game, rom_filename, rom_filenames, idx, effective_categories, system, fuzzy_media_match, dry_run, acc) ==
    IF rom_filename \notin rom_filenames THEN acc
    ELSE KeepGame(game, rom_filename,
                  ExpectedCategories(game, system, effective_categories),
                  idx, system, fuzzy_media_match, dry_run, acc)

RECURSIVE SyncGames(_, _, _, _, _, _, _, _)
\* for game in master_games: filter on the SD ROM set, sync media, append to new_root
SyncGames(games, rom_filenames, idx, effective_categories, system, fuzzy_media_match, dry_run, acc) ==
    IF games = <<>> THEN acc
    ELSE SyncGames(Tail(games), rom_filenames, idx, effective_categories, system,
                   fuzzy_media_match, dry_run,
                   IF NoPathText(Head(games)) THEN acc
                   ELSE SyncNamedGame(Head(games),
                                      normalize_rom_filename_from_xml(FindPath(Head(games))),
                                      rom_filenames, idx, effective_categories, system,
                                      fuzzy_media_match, dry_run, acc))

\* ElementTree.write of new_root
WrittenGamelist(provider, new_games) ==
    [exists |-> TRUE, well_formed |-> TRUE, provider |-> provider, games |-> new_games]

\* "if dry_run: <log> else: out_tree.write(sd_out_gamelist)"
WriteUnlessDryRun(sd_root, system, provider, new_games, dry_run) ==
    IF dry_run THEN sd_root
    ELSE [sd_root EXCEPT !.gamelists[system] = WrittenGamelist(provider, new_games)]

\* "if backup_gamelist_flag: backup_file(sd_out_gamelist, dry_run)"
BackupIfFlag(sd_root, system, dry_run, backup_gamelist_flag) ==
    IF backup_gamelist_flag THEN backup_file(sd_root, system, dry_run) ELSE sd_root

\* the tail of the pass with the write before the backup
WriteGamelistWriteFirst(sd_root, system, provider, new_games, dry_run, backup_gamelist_flag) ==
    BackupIfFlag(WriteUnlessDryRun(ensure_dir(sd_root, <<"gamelists", system>>, dry_run),
                                   system, provider, new_games, dry_run),
                 system, dry_run, backup_gamelist_flag)

\* ensure_dir, optional backup, then the write of the filtered gamelist
WriteGamelist(sd_root, system, provider, new_games, dry_run, backup_gamelist_flag) ==
    WriteUnlessDryRun(BackupIfFlag(ensure_dir(sd_root, <<"gamelists", system>>, dry_run),
                                   system, dry_run, backup_gamelist_flag),
                      system, provider, new_games, dry_run)

\* the result of a pass that returned (or raised) before the filter loop
EarlyExit(sd_root, stats, outcome) ==
    [sd_root |-> sd_root, stats |-> stats, outcome |-> outcome, new_games |-> <<>>,
     report |-> <<>>, kept |-> 0, effective_categories |-> <<>>, ignored |-> 0]

FinishPass(acc, pruned, system, provider, dry_run, backup_gamelist_flag) ==
    IF acc.kept = 0
    THEN [sd_root |-> acc.sd_root, stats |-> acc.stats, outcome |-> "no_kept",
          new_games |-> acc.new_games, report |-> acc.report, kept |-> 0,
          effective_categories |-> pruned.effective_categories, ignored |-> pruned.ignored]
    ELSE [sd_root |-> WriteGamelist(acc.sd_root, system, provider, acc.new_games, dry_run,
                                    backup_gamelist_flag),
          stats |-> [acc.stats EXCEPT !.gamelists_written = IF dry_run THEN @ ELSE @ + 1,
                                      !.systems_processed = @ + 1],
          outcome |-> "ok", new_games |-> acc.new_games, report |-> acc.report,
          kept |-> acc.kept, effective_categories |-> pruned.effective_categories,
          ignored |-> pruned.ignored]

\* the pass once the categories are pruned: the counters, the filter loop, the write
SyncPruned(system, nas_gamelist, sd_root, rom_filenames, idx, pruned, dry_run, backup_gamelist_flag, fuzzy_media_match, stats) ==
    FinishPass(
        SyncGames(nas_gamelist.games, rom_filenames, idx, pruned.effective_categories,
                  system, fuzzy_media_match, dry_run,
                  [sd_root |-> sd_root,
                   stats |-> [stats EXCEPT
                                !.categories_ignored_empty_or_missing = @ + pruned.ignored,
                                !.games_total_in_master = @ + Len(nas_gamelist.games)],
                   kept |-> 0, new_games |-> <<>>, report |-> <<>>,
                   matched_cats |-> <<>>, missed_cats |-> <<>>]),
        pruned, system, nas_gamelist.provider, dry_run, backup_gamelist_flag)

\* the pass once the indexes are built
SyncIndexed(system, nas_gamelist, sd_root, rom_filenames, media_categories, idx, dry_run, backup_gamelist_flag, fuzzy_media_match, stats) ==
    SyncPruned(system, nas_gamelist, sd_root, rom_filenames, idx,
               PruneCategories(media_categories, idx), dry_run, backup_gamelist_flag,
               fuzzy_media_match, stats)

\* the pass once the ROM files are listed: "if not rom_filenames: return", then
\* ET.parse, which raises ParseError on a malformed document
SyncWithRoms(system, nas_master_root, sd_root, rom_filenames, media_categories, dry_run, backup_gamelist_flag, fuzzy_media_match, stats) ==
    IF rom_filenames = {} THEN EarlyExit(sd_root, stats, "no_roms")
    ELSE IF ~nas_master_root.gamelists[system].well_formed
    THEN EarlyExit(sd_root, stats, "raised")
    ELSE SyncIndexed(system, nas_master_root.gamelists[system], sd_root, rom_filenames,
                     media_categories,
                     CategoryIndexes(nas_master_root, system, media_categories,
                                     fuzzy_media_match),
                     dry_run, backup_gamelist_flag, fuzzy_media_match, stats)

\* filter_gamelist_and_sync_media: one pass over one system.
\* outcome: "no_gamelist", "no_roms", "raised" (ET.parse raised ParseError),
\*          "no_kept" (write skipped) or "ok"
filter_gamelist_and_sync_media(system, nas_master_root, sd_root, media_categories, dry_run, backup_gamelist_flag, fuzzy_media_match, stats) ==
    IF ~nas_master_root.gamelists[system].exists
    THEN EarlyExit(sd_root, stats, "no_gamelist")
    ELSE SyncWithRoms(system, nas_master_root, sd_root, iter_rom_files(sd_root.roms[system]),
                      media_categories, dry_run, backup_gamelist_flag, fuzzy_media_match,
                      stats)

(***************************************************************************)
(* The whole sync loop of main() as a function of the inputs               *)
(***************************************************************************)
\* one more pass, unless the previous one raised
NextPass(system, nas, cats, dry, backup, fuzzy, w) ==
    IF w.outcome = "raised" THEN w
    ELSE filter_gamelist_and_sync_media(system, nas, w.sd_root, cats, dry, backup, fuzzy,
                                        w.stats)

RECURSIVE SyncLoop(_, _, _, _, _, _, _)
\* "for system in systems: filter_gamelist_and_sync_media(...)"; an exception ends it
SyncLoop(syss, nas, cats, dry, backup, fuzzy, w) ==
    IF syss = <<>> THEN w
    ELSE SyncLoop(Tail(syss), nas, cats, dry, backup, fuzzy,
                  NextPass(Head(syss), nas, cats, dry, backup, fuzzy, w))

\* the statistics main() ends with in sync mode, started on the card sd
SyncRunStats(syss, nas, sd, cats, dry, backup, fuzzy) ==
    SyncLoop(syss, nas, cats, dry, backup, fuzzy,
             EarlyExit(sd, [RunStats0 EXCEPT !.systems_seen = Len(syss)], None)).stats

(***************************************************************************)
(* Audit mode: audit_missing_master                                        *)
(***************************************************************************)
\* the characters of file names, in code-point order
ASCII == " !()-./0123456789ABCDEFGHIJKLMNOPQRSTUVWXYZ_abcdefghijklmnopqrstuvwxyz"

OrdMap == [c \in CharsOf(ASCII) |-> CHOOSE i \in 1..Len(ASCII) : Ch(ASCII, i) = c]

RECURSIVE StrLess(_, _)
\* a < b for Python strings
StrLess(a, b) ==
    IF b = "" THEN FALSE
    ELSE IF a = "" THEN TRUE
    ELSE IF Head(a) = Head(b) THEN StrLess(Tail(a), Tail(b))
    ELSE OrdMap[Head(a)] < OrdMap[Head(b)]

\* min(set of strings)
MinStr(set) == CHOOSE x \in set : \A y \in set \ {x} : StrLess(x, y)

RECURSIVE SortedFrom(_, _)
SortedFrom(set, acc) ==
    IF set = {} THEN acc ELSE SortedFrom(set \ {MinStr(set)}, Append(acc, MinStr(set)))

\* sorted(set of strings)
Sorted(set) == SortedFrom(set, <<>>)

\* "master_map[key] = game": a later entry replaces an earlier one
MapPut(map, key, game) ==
    [k \in DOMAIN map \cup {key} |-> IF k = key THEN game ELSE map[k]]

RECURSIVE MasterMap(_, _)
\* master_map: normalized filename -> game, over the entries that have a path
MasterMap(games, acc) ==
    IF games = <<>> THEN acc
    ELSE MasterMap(Tail(games),
                   IF NoPathText(Head(games)) THEN acc
                   ELSE MapPut(acc, normalize_rom_filename_from_xml(FindPath(Head(games))),
                               Head(games)))

AuditItem(system, rom_filename, in_master_gamelist, missing_categories, note) ==
    [system |-> system, rom_filename |-> rom_filename,
     in_master_gamelist |-> in_master_gamelist,
     missing_categories |-> missing_categories, note |-> note]

\* the loop over expected categories collecting missing_cats
AuditMissingCats(expected_categories, idx, rom_stem, fuzzy_media_match) ==
    SelectSeq(expected_categories,
              LAMBDA cat : AuditMatches(idx[cat].exact_idx, idx[cat].norm_idx, rom_stem,
                                        normalize_stem_loose(rom_stem), fuzzy_media_match) = <<>>)

\* "if missing_cats: <append a record>" for a ROM present in the master gamelist
AuditPresent(system, rom, missing_cats, acc) ==
    IF missing_cats # <<>>
    THEN [acc EXCEPT !.present_in_master = @ + 1,
                     !.missing_media_count = @ + 1,
                     !.items = Append(@, AuditItem(system, rom, TRUE, missing_cats,
                                                   "missing media categories in master cache"))]
    ELSE [acc EXCEPT !.present_in_master = @ + 1]

\* the loop body of the audit for one ROM on the card
AuditRom(rom, master_map, idx, effective_categories, system, fuzzy_media_match, acc) ==
    IF rom \notin DOMAIN master_map
    THEN [acc EXCEPT !.missing_in_master = @ + 1,
                     !.items = Append(@, AuditItem(system, rom, FALSE, <<>>,
                                                   "ROM not found in master gamelist.xml"))]
    ELSE AuditPresent(system, rom,
            AuditMissingCats(ExpectedCategories(master_map[rom], system, effective_categories),
                             idx, StrLower(PathStem(rom)), fuzzy_media_match),
            acc)

RECURSIVE AuditRoms(_, _, _, _, _, _, _)
\* for rom in sd_rom_files: ...
AuditRoms(roms, master_map, idx, effective_categories, system, fuzzy_media_match, acc) ==
    IF roms = <<>> THEN acc
    ELSE AuditRoms(Tail(roms), master_map, idx, effective_categories, system,
                   fuzzy_media_match,
                   AuditRom(Head(roms), master_map, idx, effective_categories, system,
                            fuzzy_media_match, acc))

\* the result of an iteration that ended before the per-ROM loop
AuditEarly(all_items, outcome, missing_in_master) ==
    [all_items |-> all_items, outcome |-> outcome,
     summary |-> [present_in_master |-> 0, missing_in_master |-> missing_in_master,
                  missing_media_count |-> 0, ignored |-> 0, effective_categories |-> <<>>]]

\* the records of a system without master gamelist: a single record for the system
MissingGamelistItemsOnce(system, sd_rom_files) ==
    <<AuditItem(system, sd_rom_files[1], FALSE, <<>>, "missing master gamelist.xml")>>

\* the records of a system without master gamelist: one per ROM on the card
MissingGamelistItems(system, sd_rom_files) ==
    [n \in 1..Len(sd_rom_files) |->
        AuditItem(system, sd_rom_files[n], FALSE, <<>>, "missing master gamelist.xml")]

\* the result of the per-ROM loop with the counters of the system
AuditResult(acc, pruned) ==
    [all_items |-> acc.items, outcome |-> "ok",
     summary |-> [present_in_master |-> acc.present_in_master,
                  missing_in_master |-> acc.missing_in_master,
                  missing_media_count |-> acc.missing_media_count,
                  ignored |-> pruned.ignored,
                  effective_categories |-> pruned.effective_categories]]

\* the iteration once the categories are pruned
AuditPruned(system, nas_gamelist, sd_rom_files, idx, pruned, fuzzy_media_match, all_items) ==
    AuditResult(AuditRoms(sd_rom_files, MasterMap(nas_gamelist.games, <<>>), idx,
                          pruned.effective_categories, system, fuzzy_media_match,
                          [items |-> all_items, present_in_master |-> 0,
                           missing_in_master |-> 0, missing_media_count |-> 0]),
                pruned)

\* the iteration once the indexes are built
AuditIndexed(system, nas_gamelist, sd_rom_files, media_categories_selected, idx, fuzzy_media_match, all_items) ==
    AuditPruned(system, nas_gamelist, sd_rom_files, idx,
                PruneCategories(media_categories_selected, idx), fuzzy_media_match, all_items)

\* the iteration once the ROM files are listed
AuditWithRoms(system, nas_master_root, sd_rom_files, media_categories_selected, fuzzy_media_match, all_items) ==
    IF sd_rom_files = <<>> THEN AuditEarly(all_items, "no_roms", 0)
    ELSE IF ~nas_master_root.gamelists[system].exists
    THEN AuditEarly(all_items \o MissingGamelistItems(system, sd_rom_files),
                    "no_gamelist", Len(sd_rom_files))
    ELSE IF ~nas_master_root.gamelists[system].well_formed
    THEN AuditEarly(all_items, "raised", 0)
    ELSE AuditIndexed(system, nas_master_root.gamelists[system], sd_rom_files,
                      media_categories_selected,
                      CategoryIndexes(nas_master_root, system, media_categories_selected,
                                      fuzzy_media_match),
                      fuzzy_media_match, all_items)

\* one iteration of "for system in systems" in audit_missing_master.
\* outcome: "no_roms", "no_gamelist", "raised" (ET.parse raised ParseError) or "ok"
AuditSystem(system, nas_master_root, sd_root, media_categories_selected, fuzzy_media_match, all_items) ==
    AuditWithRoms(system, nas_master_root, Sorted(iter_rom_files(sd_root.roms[system])),
                  media_categories_selected, fuzzy_media_match, all_items)

\* "(not i.in_master_gamelist) or i.missing_categories"
IsProblem(item) == ~item.in_master_gamelist \/ item.missing_categories # <<>>

\* the exit status that is always 0
AuditExitStatusZero(all_items) == 0

\* return 1 if problems > 0 else 0
AuditExitStatus(all_items) ==
    IF Len(SelectSeq(all_items, IsProblem)) > 0 THEN 1 ELSE 0

(***************************************************************************)
(* The run: main() in sync mode and in audit mode                          *)
(***************************************************************************)
VARIABLES
    systems,               \* resolve_systems(args, sd_root)
    media_categories,      \* resolve_media_categories(args)
    audit_mode,            \* args.audit_missing_master
    audit_csv,             \* whether --audit_csv names a file
    dry_run,               \* args.dry_run
    backup_gamelist_flag,  \* args.backup_gamelist
    fuzzy_media_match,     \* args.fuzzy_media_match
    nas_master_root,       \* the NAS master tree (read only)
    sd_root,               \* the SD card
    sd_root0,              \* the SD card as it was when the run started
    stats,                 \* RunStats
    all_items,             \* the audit records
    csv_rows,              \* the rows written to the audit CSV
    pc,                    \* "main", "sync", "audit", "done", "raised"
    next_system,           \* index in systems of the next system to process
    last,                  \* what the last pass over a system produced
    exit_status,           \* the process exit status, None while running
    call                   \* argument and result of a function applied on its own

vars == <<systems, media_categories, audit_mode, audit_csv, dry_run, backup_gamelist_flag,
          fuzzy_media_match, nas_master_root, sd_root, sd_root0, stats, all_items, csv_rows,
          pc, next_system, last, exit_status, call>>

args == <<systems, media_categories, audit_mode, audit_csv, dry_run, backup_gamelist_flag,
          fuzzy_media_match, nas_master_root, sd_root0>>

\* ---- the inputs the runs are drawn from --------------------------------
MaxGames == 2

File(name, size, data) ==
    [name |-> name, is_file |-> TRUE, size |-> size, data |-> data, exists |-> TRUE]
SubDir(name) == [name |-> name, is_file |-> FALSE, size |-> 0, data |-> "", exists |-> TRUE]
Dir(entries) == [exists |-> TRUE, entries |-> entries]
NoDir == [exists |-> FALSE, entries |-> <<>>]

Child(tag, text) == [tag |-> tag, text |-> text]

NoGamelist == [exists |-> FALSE, well_formed |-> FALSE, provider |-> None, games |-> <<>>]
MalformedGamelist == [exists |-> TRUE, well_formed |-> FALSE, provider |-> None, games |-> <<>>]
Gamelist(provider, games) ==
    [exists |-> TRUE, well_formed |-> TRUE, provider |-> provider, games |-> games]

Systems == {"nes", "gb"}

SystemLists == {<<>>, <<"nes">>, <<"nes", "nes">>, <<"nes", "gb">>}

CategorySelections == {<<"videos", "covers">>, <<"covers", "covers">>}

\* catalog entries of system nes
NesGames ==
    { <<Child("path", "./A.x"), Child("name", "A")>>,
      <<Child("path", "a.x"), Child("image", "./downloaded_media/nes/covers/a.png")>>,
      <<Child("path", " .\\sub\\AB.x "), Child("video", "~/media/NES/videos/ab.mp4"),
        Child("desc", None)>>,
      <<Child("name", "no path")>> }

RECURSIVE SeqsUpTo(_, _)
\* the sequences over S of length at most n
SeqsUpTo(S, n) ==
    IF n = 0 THEN {<<>>}
    ELSE LET shorter == SeqsUpTo(S, n - 1)
         IN shorter \cup {Append(q, x) : q \in {r \in shorter : Len(r) = n - 1}, x \in S}

GamelistsOf(system) ==
    IF system = "nes"
    THEN {NoGamelist, MalformedGamelist}
         \cup {Gamelist("ScreenScraper", games) : games \in SeqsUpTo(NesGames, MaxGames)}
    ELSE {Gamelist(None, <<<<Child("path", "./Z.x")>>>>)}

RomSetsOf(system) ==
    IF system = "nes" THEN {{}, {"A.x"}, {"sub/a.x", "Ab.x"}} ELSE {{"z.x"}}

AbsentTree == [cat \in CategorySet |-> NoDir]

MediaTreesOf(system) ==
    IF system = "nes"
    THEN { [AbsentTree EXCEPT !["covers"] = Dir(<<File("a.png", 1, "cover-a")>>)],
           [AbsentTree EXCEPT !["covers"] = Dir(<<File("abc.png", 1, "cover-abc"), SubDir("x")>>),
                              !["videos"] = Dir(<<File("A.mp4", 2, "video-a")>>)],
           [AbsentTree EXCEPT !["covers"] = Dir(<<SubDir("a")>>),
                              !["videos"] = Dir(<<File("a.mp4", 2, "video-a")>>)],
           [AbsentTree EXCEPT !["covers"] = Dir(<<File("A!.png", 1, "cover-a1"),
                                                  File("a-.jpg", 2, "cover-a2")>>),
                              !["videos"] = Dir(<<>>)] }
    ELSE { [AbsentTree EXCEPT !["covers"] = Dir(<<File("z.png", 1, "cover-z")>>)] }

OldGamelist == Gamelist(None, <<<<Child("path", "./old.x")>>>>)

StaleCover == [p \in {<<"nes", "covers", "a.png">>} |-> [size |-> 1, data |-> "stale"]]

Esde(media, nes_gamelist) ==
    [media |-> media, gamelists |-> [nes |-> nes_gamelist, gb |-> NoGamelist],
     backups |-> [nes |-> <<>>, gb |-> <<>>], stat_error |-> {}]

\* the state of ES-DE/ on the card before the run
EsdeStates == {Esde(<<>>, NoGamelist), Esde(StaleCover, OldGamelist)}

\* the directories that hold the files of an ES-DE state
DirsOf(esde) ==
    UNION ({WithParents(<<"downloaded_media", p[1], p[2]>>) : p \in DOMAIN esde.media}
           \cup {WithParents(<<"gamelists", s>>) : s \in {t \in Systems : esde.gamelists[t].exists}})

\* the choices for a system's data: only a system of the run has any
OnlyIfListed(system, choices, absent) ==
    IF system \in Range(systems) THEN choices ELSE {absent}

Init ==
    /\ systems \in SystemLists
    /\ media_categories \in CategorySelections
    /\ audit_mode \in BOOLEAN
    /\ fuzzy_media_match \in BOOLEAN
    /\ audit_csv \in (IF audit_mode THEN BOOLEAN ELSE {FALSE})
    /\ dry_run \in (IF audit_mode THEN {FALSE} ELSE BOOLEAN)
    /\ backup_gamelist_flag \in (IF audit_mode THEN {FALSE} ELSE BOOLEAN)
    /\ \E esde \in (IF audit_mode THEN {Esde(<<>>, NoGamelist)} ELSE EsdeStates) :
        /\ nas_master_root \in
              { [gamelists |-> gl, media |-> mt] :
                  gl \in [nes : OnlyIfListed("nes", GamelistsOf("nes"), NoGamelist),
                          gb : OnlyIfListed("gb", GamelistsOf("gb"), NoGamelist)],
                  mt \in [nes : OnlyIfListed("nes", MediaTreesOf("nes"), AbsentTree),
                          gb : OnlyIfListed("gb", MediaTreesOf("gb"), AbsentTree)] }
        /\ \E rs \in [nes : OnlyIfListed("nes", RomSetsOf("nes"), {}),
                      gb : OnlyIfListed("gb", RomSetsOf("gb"), {})] :
              sd_root = [roms |-> rs, dirs |-> DirsOf(esde), media |-> esde.media,
                         gamelists |-> esde.gamelists, backups |-> esde.backups,
                         stat_error |-> esde.stat_error]
    /\ sd_root0 = sd_root
    /\ stats = RunStats0
    /\ all_items = <<>>
    /\ csv_rows = None
    /\ pc = "main"
    /\ next_system = 1
    /\ last = [system |-> None, outcome |-> None]
    /\ exit_status = None
    /\ call = [op |-> None]

\* main() up to the choice of the mode
Main ==
    /\ pc = "main"
    /\ IF systems = <<>>
       THEN pc' = "done" /\ exit_status' = "0" /\ stats' = stats
       ELSE IF audit_mode
       THEN pc' = "audit" /\ exit_status' = exit_status /\ stats' = stats
       ELSE /\ pc' = "sync" /\ exit_status' = exit_status
            /\ stats' = [RunStats0 EXCEPT !.systems_seen = Len(systems)]
    /\ UNCHANGED <<args, sd_root, all_items, csv_rows, next_system, last, call>>

\* the effect of one pass r over a system: an exception raised by the pass is
\* not caught in main() and ends the process
AfterPass(system, r) ==
    /\ sd_root' = r.sd_root
    /\ stats' = r.stats
    /\ last' = [system |-> system, outcome |-> r.outcome, new_games |-> r.new_games,
                report |-> r.report, kept |-> r.kept,
                effective_categories |-> r.effective_categories, ignored |-> r.ignored]
    /\ IF r.outcome = "raised"
       THEN pc' = "raised" /\ exit_status' = "1" /\ next_system' = next_system
       ELSE pc' = pc /\ exit_status' = exit_status /\ next_system' = next_system + 1

\* main(): one iteration of "for system in systems" in sync mode
SyncSystem ==
    /\ pc = "sync"
    /\ next_system <= Len(systems)
    /\ AfterPass(systems[next_system],
                 filter_gamelist_and_sync_media(systems[next_system], nas_master_root,
                     sd_root, media_categories, dry_run, backup_gamelist_flag,
                     fuzzy_media_match, stats))
    /\ UNCHANGED <<args, all_items, csv_rows, call>>

\* main(): the summary and "return 0" of sync mode
SyncReturn ==
    /\ pc = "sync"
    /\ next_system > Len(systems)
    /\ pc' = "done"
    /\ exit_status' = "0"
    /\ UNCHANGED <<args, sd_root, stats, all_items, csv_rows, next_system, last, call>>

\* the effect of one audit iteration r: an exception raised in it is not caught
AfterAudit(system, r) ==
    /\ all_items' = r.all_items
    /\ last' = [system |-> system, outcome |-> r.outcome, summary |-> r.summary]
    /\ IF r.outcome = "raised"
       THEN pc' = "raised" /\ exit_status' = "1" /\ next_system' = next_system
       ELSE pc' = pc /\ exit_status' = exit_status /\ next_system' = next_system + 1

\* audit_missing_master: one iteration of "for system in systems"
AuditStep ==
    /\ pc = "audit"
    /\ next_system <= Len(systems)
    /\ AfterAudit(systems[next_system],
                  AuditSystem(systems[next_system], nas_master_root, sd_root,
                              media_categories, fuzzy_media_match, all_items))
    /\ UNCHANGED <<args, sd_root, stats, csv_rows, call>>

\* audit_missing_master after the loop: the optional CSV and the exit status
AuditReturn ==
    /\ pc = "audit"
    /\ next_system > Len(systems)
    /\ csv_rows' = IF audit_csv THEN SelectSeq(all_items, IsProblem) ELSE csv_rows
    /\ pc' = "done"
    /\ exit_status' = IF AuditExitStatus(all_items) = 0 THEN "0" ELSE "1"
    /\ UNCHANGED <<args, sd_root, stats, all_items, next_system, last, call>>

Next == Main \/ SyncSystem \/ SyncReturn \/ AuditStep \/ AuditReturn

Spec == Init /\ [][Next]_vars

(***************************************************************************)
(* Functions applied on their own                                          *)
(***************************************************************************)
MaxDirEntries == 2

\* media files of one category directory
MatchFiles ==
    { File("a.png", 1, "1"), File("A.jpg", 1, "2"), File("a!.png", 1, "3"),
      File("a b.png", 1, "4"), File("A-B.png", 1, "5"), SubDir("a") }

MatchStems == {"a", "a b", "a_b", "b"}

\* media references and the like
RefTexts ==
    { "", "./downloaded_media/nes/covers/a.png", ".\\downloaded_media\\NES\\Videos\\a.mp4",
      "./downloaded_media/nes/art/covers/a.png", "./downloaded_media/gb/covers/a.png",
      "./downloaded_media/nes", "media/nes/covers/a.png", "media/nes/box/covers/a.png",
      "~/art/Covers/a.png", "./covers.png", " nes/videos " }

\* the variables of the run, at rest
RunAtRest ==
    /\ systems = <<>> /\ media_categories = <<>> /\ audit_mode = FALSE /\ audit_csv = FALSE
    /\ dry_run = FALSE /\ backup_gamelist_flag = FALSE /\ fuzzy_media_match = FALSE
    /\ nas_master_root = [gamelists |-> [nes |-> NoGamelist, gb |-> NoGamelist],
                          media |-> [nes |-> AbsentTree, gb |-> AbsentTree]]
    /\ sd_root = [roms |-> [nes |-> {}, gb |-> {}], dirs |-> {}, media |-> <<>>,
                  gamelists |-> [nes |-> NoGamelist, gb |-> NoGamelist],
                  backups |-> [nes |-> <<>>, gb |-> <<>>], stat_error |-> {}]
    /\ sd_root0 = sd_root /\ stats = RunStats0 /\ all_items = <<>> /\ csv_rows = None
    /\ pc = "call" /\ next_system = 1 /\ last = [system |-> None, outcome |-> None]
    /\ exit_status = None

run_vars == <<systems, media_categories, audit_mode, audit_csv, dry_run, backup_gamelist_flag,
              fuzzy_media_match, nas_master_root, sd_root, sd_root0, stats, all_items,
              csv_rows, pc, next_system, last, exit_status>>

MaxChildren == 2

\* children of a <game> element
GameChildren ==
    { Child("path", "./A.x"), Child("desc", None), Child("name", " "),
      Child("image", "./downloaded_media/nes/covers/a.png"),
      Child("video", "~/media/NES/videos/a.mp4"),
      Child("thumbnail", "./downloaded_media/nes/art/covers/a.png"),
      Child("fanart", " ./fanart/a.png "),
      Child("desc", "see the manuals") }

EffectiveLists == {<<>>, <<"covers">>, <<"videos", "covers">>}

\* the destination of the copy_file calls
CallDst == <<"nes", "covers", "a.png">>

\* the source files of the copy_file calls: present or gone, of size 1 or 2
CallSources ==
    {[File("a.png", size, "new") EXCEPT !.exists = e] : size \in {1, 2}, e \in BOOLEAN}

\* a card that holds the given media files, with the paths whose stat() fails
Card(media, stat_error) ==
    [roms |-> [nes |-> {}, gb |-> {}], dirs |-> DirsOf(Esde(media, NoGamelist)), media |-> media,
     gamelists |-> [nes |-> NoGamelist, gb |-> NoGamelist],
     backups |-> [nes |-> <<>>, gb |-> <<>>], stat_error |-> stat_error]

\* the cards of the copy_file calls: destination absent, or present with size 1
\* or 2 and old or new contents, its stat() working or failing
CallCards ==
    {Card(<<>>, {})}
    \cup {Card([p \in {CallDst} |-> [size |-> size, data |-> data]], err) :
              size \in {1, 2}, data \in {"old", "new"}, err \in {{}, {CallDst}}}

CallInit ==
    /\ RunAtRest
    /\ \/ call \in [op : {"sync_matches", "audit_matches"},
                    dir : {Dir(e) : e \in SeqsUpTo(MatchFiles, MaxDirEntries)},
                    rom_stem : MatchStems, fuzzy : BOOLEAN, done : {FALSE}]
       \/ call \in [op : {"parse_category"}, text : RefTexts, system : {"nes", "NES"},
                    done : {FALSE}]
       \/ call \in [op : {"copy_file"}, sd_root : CallCards, src : CallSources,
                    dst : {CallDst}, dry_run : BOOLEAN, done : {FALSE}]
       \/ call \in [op : {"expected_categories"},
                    game : SeqsUpTo(GameChildren, MaxChildren), system : {"nes"},
                    effective_categories : EffectiveLists, done : {FALSE}]

\* the matches of the sync loop for one category directory and one ROM stem
CallSyncMatches ==
    /\ call.op = "sync_matches" /\ ~call.done
    /\ call' = [call EXCEPT !.done = TRUE] @@
               [out |-> SyncMatches(build_media_index(call.dir, call.fuzzy).exact_idx,
                                    build_media_index(call.dir, call.fuzzy).norm_idx,
                                    call.rom_stem, normalize_stem_loose(call.rom_stem),
                                    call.fuzzy)]
    /\ UNCHANGED run_vars

\* the matches of the audit loop for one category directory and one ROM stem
CallAuditMatches ==
    /\ call.op = "audit_matches" /\ ~call.done
    /\ call' = [call EXCEPT !.done = TRUE] @@
               [out |-> AuditMatches(build_media_index(call.dir, call.fuzzy).exact_idx,
                                     build_media_index(call.dir, call.fuzzy).norm_idx,
                                     call.rom_stem, normalize_stem_loose(call.rom_stem),
                                     call.fuzzy)]
    /\ UNCHANGED run_vars

\* parse_category_from_media_ref(text, system)
CallParseCategory ==
    /\ call.op = "parse_category" /\ ~call.done
    /\ call' = [call EXCEPT !.done = TRUE] @@
               [out |-> parse_category_from_media_ref(call.text, call.system)]
    /\ UNCHANGED run_vars

\* the expected categories of a game, as both loops compute them
CallExpectedCategories ==
    /\ call.op = "expected_categories" /\ ~call.done
    /\ call' = [call EXCEPT !.done = TRUE] @@
               [out |-> ExpectedCategories(call.game, call.system, call.effective_categories)]
    /\ UNCHANGED run_vars

\* the result r of copy_file, the card after it, and the result of calling
\* copy_file again on the same pair right after a copy
CopyFileResult(r, src, dst, dry) ==
    [out |-> r.result, sd_after |-> r.sd_root,
     again |-> IF r.result = "copied" THEN copy_file(r.sd_root, src, dst, dry).result
               ELSE None]

\* copy_file(src, dst, dry_run)
CallCopyFile ==
    /\ call.op = "copy_file" /\ ~call.done
    /\ call' = [call EXCEPT !.done = TRUE] @@
               CopyFileResult(copy_file(call.sd_root, call.src, call.dst, call.dry_run),
                              call.src, call.dst, call.dry_run)
    /\ UNCHANGED run_vars

CallNext ==
    \/ CallSyncMatches \/ CallAuditMatches \/ CallParseCategory
    \/ CallExpectedCategories \/ CallCopyFile

SpecCall == CallInit /\ [][CallNext]_vars

(***************************************************************************)
(* Properties of the sync pass                                             *)
(***************************************************************************)
\* the system of the last pass had a readable master gamelist and ROMs on the card
PassFiltered == ~audit_mode /\ last.system # None /\ last.outcome \in {"ok", "no_kept"}

\* F: the lower-cased names of the files under ROMs/<system> on the card
RomNamesOnCard(system) == {StrLower(PathName(p)) : p \in sd_root0.roms[system]}

\* the entries of the master catalog that have a path whose normalized value is in F
EntriesOnCard(system) ==
    SelectSeq(nas_master_root.gamelists[system].games,
              LAMBDA e : /\ \E n \in 1..Len(e) : e[n].tag = "path"
                         /\ ~NoPathText(e)
                         /\ normalize_rom_filename_from_xml(FindPath(e))
                                \in RomNamesOnCard(system))

\* C1: in sync mode, for a system whose master catalog exists and whose set F of
\* on-disk ROM filenames is not empty, the entries of the output document are
\* exactly the catalog entries, in catalog order, that have a path whose
\* normalized value is in F: none is omitted and none is emitted without its ROM;
\* the document written to the card holds exactly these entries.
C1_OutputIsCatalogFilteredByRoms ==
    PassFiltered =>
        /\ last.new_games = EntriesOnCard(last.system)
        /\ last.kept = Len(last.new_games)
        /\ (last.outcome = "ok" /\ ~dry_run) =>
               sd_root.gamelists[last.system].games = EntriesOnCard(last.system)

\* a pass that kept some entries of the catalog and dropped others
C1_Witness ==
    /\ PassFiltered /\ last.outcome = "ok" /\ ~dry_run
    /\ 0 < Len(last.new_games)
    /\ Len(last.new_games) < Len(nas_master_root.gamelists[last.system].games)
    /\ \E n \in 1..Len(nas_master_root.gamelists[last.system].games) :
          LET e == nas_master_root.gamelists[last.system].games[n]
          IN ~NoPathText(e) /\ normalize_rom_filename_from_xml(FindPath(e))
                                   \notin RomNamesOnCard(last.system)

\* the four counters the preview is said to share with the real run
Counters(s) ==
    <<s.media_files_copied, s.media_files_skipped, s.media_categories_attempted,
      s.media_categories_missing>>

\* C2: a dry run and a real run over the same inputs and the same initial
\* target tree end with identical media_files_copied, media_files_skipped,
\* media_categories_attempted and media_categories_missing, also when the same
\* artwork file is selected more than once.
C2_PreviewCountsAsRealRun ==
    (~audit_mode /\ pc = "done" /\ systems # <<>>) =>
        Counters(stats) = Counters(SyncRunStats(systems, nas_master_root, sd_root0,
                                                media_categories, ~dry_run,
                                                backup_gamelist_flag, fuzzy_media_match))

\* C3: no exception propagates past a system boundary: a malformed master
\* catalog abandons that system alone, the loop goes on to the later systems
\* and the run returns.
C3_MalformedCatalogAbandonsOneSystem ==
    /\ pc # "raised"
    /\ (last.system # None /\ ~nas_master_root.gamelists[last.system].well_formed
            /\ nas_master_root.gamelists[last.system].exists
            /\ sd_root0.roms[last.system] # {})
         => (pc \in {"sync", "audit", "done"} /\ last.outcome # "raised")

(***************************************************************************)
(* Properties of category pruning, exit status and missing catalogs        *)
(***************************************************************************)
\* the master catalog of the system can be read and the card holds ROMs of it
Filterable(system) ==
    /\ nas_master_root.gamelists[system].exists
    /\ nas_master_root.gamelists[system].well_formed
    /\ sd_root0.roms[system] # {}

\* the selected categories whose source directory is absent or holds no file
PrunedCats(system) ==
    {c \in Range(media_categories) :
        \/ ~nas_master_root.media[system][c].exists
        \/ \A n \in 1..Len(nas_master_root.media[system][c].entries) :
              ~nas_master_root.media[system][c].entries[n].is_file}

RECURSIVE SumLen(_, _)
SumLen(seq, field) ==
    IF seq = <<>> THEN 0 ELSE Len(Head(seq)[field]) + SumLen(Tail(seq), field)

\* the records a step appends to all_items
AddedItems == SubSeq(all_items', Len(all_items) + 1, Len(all_items'))

C4_SyncPass ==
    (pc = "sync" /\ next_system <= Len(systems) /\ Filterable(systems[next_system])) =>
        /\ \A n \in 1..Len(last'.report) :
              /\ Range(last'.report[n].expected) \cap PrunedCats(systems[next_system]) = {}
              /\ Range(last'.report[n].missed) \cap PrunedCats(systems[next_system]) = {}
        /\ stats'.media_categories_missing
              = stats.media_categories_missing + SumLen(last'.report, "missed")
        /\ stats'.categories_ignored_empty_or_missing
              = stats.categories_ignored_empty_or_missing
                    + Cardinality(PrunedCats(systems[next_system]))

C4_AuditPass ==
    (pc = "audit" /\ next_system <= Len(systems) /\ Filterable(systems[next_system])) =>
        /\ \A n \in 1..Len(AddedItems) :
              Range(AddedItems[n].missing_categories) \cap PrunedCats(systems[next_system]) = {}
        /\ last'.summary.ignored = Cardinality(PrunedCats(systems[next_system]))

\* C4: for every system, a selected category whose source directory is absent or
\* holds zero files is excluded from the expected categories of every game, never
\* appears in a per-game missing list or in an audit record's missing_categories,
\* never increments media_categories_missing, and is counted exactly once in the
\* ignored-categories total of that system pass.
C4_PrunedCategoryCountedOnce == [][C4_SyncPass /\ C4_AuditPass]_vars

\* "(not in_master_gamelist) or missing_categories", on the records kept in all_items
ProblemRecords == {n \in 1..Len(all_items) :
                      ~all_items[n].in_master_gamelist \/ Len(all_items[n].missing_categories) > 0}

\* the normalized paths of the catalog entries of a system
CatalogKeys(system) ==
    {normalize_rom_filename_from_xml(FindPath(nas_master_root.gamelists[system].games[n])) :
        n \in {m \in 1..Len(nas_master_root.gamelists[system].games) :
                  ~NoPathText(nas_master_root.gamelists[system].games[m])}}

\* C5: the audit returns non-zero if and only if, after all systems are processed,
\* at least one record has in_master_gamelist = false or a non-empty
\* missing_categories; every on-disk ROM without catalog entry has one record with
\* in_master_gamelist = false per audit of its system; a sync run that reaches
\* the end of its system list returns 0.
C5_ExitStatus ==
    /\ (pc = "done" /\ audit_mode) => (exit_status = "1" <=> ProblemRecords # {})
    /\ (pc = "done" /\ audit_mode) => (exit_status = "0" <=> ProblemRecords = {})
    /\ (pc = "done" /\ ~audit_mode) => exit_status = "0"
    /\ (pc = "done" /\ audit_mode) =>
          \A s \in {t \in Range(systems) : Filterable(t)} :
              \A rom \in RomNamesOnCard(s) \ CatalogKeys(s) :
                  Cardinality({n \in 1..Len(all_items) :
                                  /\ all_items[n].system = s
                                  /\ all_items[n].rom_filename = rom
                                  /\ ~all_items[n].in_master_gamelist})
                      = Cardinality({i \in 1..Len(systems) : systems[i] = s})

\* an audit that ends non-zero on a ROM that has no catalog entry
C5_Witness ==
    /\ pc = "done" /\ audit_mode /\ exit_status = "1"
    /\ \E s \in Range(systems) : Filterable(s) /\ RomNamesOnCard(s) \ CatalogKeys(s) # {}
    /\ \A n \in 1..Len(all_items) : all_items[n].missing_categories = <<>>

C6_SyncPass ==
    (pc = "sync" /\ next_system <= Len(systems)
        /\ ~nas_master_root.gamelists[systems[next_system]].exists) =>
        /\ sd_root' = sd_root
        /\ stats' = stats
        /\ pc' = "sync" /\ next_system' = next_system + 1 /\ exit_status' = exit_status

C6_AuditPass ==
    (pc = "audit" /\ next_system <= Len(systems)
        /\ ~nas_master_root.gamelists[systems[next_system]].exists
        /\ sd_root.roms[systems[next_system]] # {}) =>
        /\ Len(AddedItems) = Cardinality(RomNamesOnCard(systems[next_system]))
        /\ \A f \in RomNamesOnCard(systems[next_system]) :
              \E n \in 1..Len(AddedItems) : AddedItems[n].rom_filename = f
        /\ \A n \in 1..Len(AddedItems) :
              /\ AddedItems[n].system = systems[next_system]
              /\ ~AddedItems[n].in_master_gamelist
        /\ SubSeq(all_items', 1, Len(all_items)) = all_items
        /\ pc' = "audit" /\ next_system' = next_system + 1 /\ exit_status' = exit_status

\* C6: a missing master catalog is per-system and never fatal: in sync mode the
\* system is skipped with no file copied, no document written and no counter
\* changed, and the loop goes on to the following systems; in audit mode, for a
\* system with on-disk ROMs, exactly one record with in_master_gamelist = false is
\* added per on-disk filename and the audit goes on to the next system.
C6_MissingCatalogSkipsOneSystem == [][C6_SyncPass /\ C6_AuditPass]_vars

\* an audit that went past a system without catalog, one record per ROM, and
\* processed the system after it
C6_Witness ==
    /\ audit_mode /\ systems = <<"nes", "gb">> /\ last.system = "gb" /\ last.outcome = "ok"
    /\ ~nas_master_root.gamelists["nes"].exists
    /\ Cardinality(RomNamesOnCard("nes")) = 2
    /\ Len(SelectSeq(all_items, LAMBDA i : i.system = "nes")) = 2

(***************************************************************************)
(* Properties of the writes to the card                                    *)
(***************************************************************************)
\* C7: preview mode performs no mutation of the card: with dry_run set, the
\* target tree (directories, artwork files, catalog documents, backups) is at
\* every point of the run what it was before the run.
C7_PreviewLeavesCardUnchanged ==
    (~audit_mode /\ dry_run) => sd_root = sd_root0

\* a finished preview that would have copied a file, taken a backup and written
\* the document
C7_Witness ==
    /\ ~audit_mode /\ dry_run /\ pc = "done"
    /\ stats.media_files_copied > 0 /\ stats.games_kept > 0
    /\ backup_gamelist_flag /\ sd_root0.gamelists["nes"].exists

C8_SyncPass ==
    (pc = "sync" /\ next_system <= Len(systems) /\ ~dry_run) =>
        /\ (stats'.games_kept > stats.games_kept) <=>
               (stats'.gamelists_written = stats.gamelists_written + 1)
        /\ (stats'.games_kept > stats.games_kept) =>
              /\ sd_root'.gamelists[systems[next_system]].exists
              /\ sd_root'.gamelists[systems[next_system]].games = last'.new_games
              /\ Len(last'.new_games) = stats'.games_kept - stats.games_kept
        /\ (stats'.games_kept = stats.games_kept) =>
              /\ sd_root'.gamelists = sd_root.gamelists
              /\ sd_root'.backups = sd_root.backups
              /\ stats'.gamelists_written = stats.gamelists_written
        /\ (stats'.games_kept > stats.games_kept /\ backup_gamelist_flag
                /\ sd_root.gamelists[systems[next_system]].exists) =>
              sd_root'.backups[systems[next_system]]
                  = Append(sd_root.backups[systems[next_system]],
                           sd_root.gamelists[systems[next_system]])

\* C8: in sync mode outside preview, the output document of a system is written
\* if and only if at least one entry was retained; with zero retained entries the
\* existing document is left untouched and no backup is made; with backup enabled
\* and an existing document, the backup holds the document as it was before the
\* overwrite.
C8_WrittenIffRetained == [][C8_SyncPass]_vars

\* a pass that backed up the old document and then replaced it
C8_Witness ==
    /\ ~audit_mode /\ ~dry_run /\ backup_gamelist_flag /\ last.system = "nes"
    /\ sd_root0.gamelists["nes"].exists
    /\ Len(sd_root.backups["nes"]) = 1
    /\ sd_root.backups["nes"][1] = sd_root0.gamelists["nes"]
    /\ sd_root.gamelists["nes"] # sd_root0.gamelists["nes"]

(***************************************************************************)
(* Properties of the matcher and of the category inference                 *)
(***************************************************************************)
\* the files of the directory of the call, in listing order
CallFiles == SelectSeq(call.dir.entries, LAMBDA f : f.is_file)

\* exact tier: the files whose lower-cased stem is the ROM stem
ExactTier == SelectSeq(CallFiles, LAMBDA f : StrLower(PathStem(f.name)) = call.rom_stem)

\* normalized tier: the files whose normalized stem is the normalized ROM stem
NormTier ==
    SelectSeq(CallFiles, LAMBDA f : normalize_stem_loose(PathStem(f.name))
                                        = normalize_stem_loose(call.rom_stem))

\* prefix tier: the files whose lower-cased stem starts with the ROM stem
PrefixTier ==
    SelectSeq(CallFiles, LAMBDA f : StartsWith(StrLower(PathStem(f.name)), call.rom_stem))

\* C9: the matching tiers are strictly ordered and stop at the first non-empty
\* result, in the sync loop and in the audit loop alike: when the exact index holds
\* the stem the result is exactly the exact-tier files; otherwise, only with fuzzy
\* enabled, the result is the normalized lookup, and the prefix scan over the
\* exact-index keys only when that lookup is empty too; with fuzzy disabled a
\* category is matched if and only if the exact index holds the stem.
C9_TiersOrderedFirstNonEmptyWins ==
    (call.op \in {"sync_matches", "audit_matches"} /\ call.done) =>
        /\ ExactTier # <<>> => call.out = ExactTier
        /\ (ExactTier = <<>> /\ ~call.fuzzy) => call.out = <<>>
        /\ (ExactTier = <<>> /\ call.fuzzy /\ NormTier # <<>>) => call.out = NormTier
        /\ (ExactTier = <<>> /\ call.fuzzy /\ NormTier = <<>>) =>
              (Range(call.out) = Range(PrefixTier) /\ Len(call.out) = Len(PrefixTier))
        /\ ~call.fuzzy => (call.out # <<>> <=> ExactTier # <<>>)

\* a fuzzy lookup in the sync loop where the exact tier wins although the
\* normalized tier holds another file
C9_Witness ==
    /\ call.op = "sync_matches" /\ call.done /\ call.fuzzy
    /\ call.out # <<>> /\ call.out = ExactTier
    /\ Range(NormTier) \ Range(ExactTier) # {}

\* the lower-cased segments of the reference of the call
CallSegments == MapLower(RefParts(call.text))

\* rule 1: downloaded_media, then the system, then a known category
Rule1Matches ==
    \E i \in 1..Len(CallSegments) :
        /\ RefParts(call.text)[i] = "downloaded_media"
        /\ i + 2 <= Len(CallSegments)
        /\ CallSegments[i + 1] = StrLower(call.system)
        /\ CallSegments[i + 2] \in CategorySet

\* rule 2: the system immediately followed by a known category
Rule2Matches ==
    \E j \in 1..Len(CallSegments) :
        /\ CallSegments[j] = StrLower(call.system)
        /\ j + 1 <= Len(CallSegments)
        /\ CallSegments[j + 1] \in CategorySet

\* C10: the three rules apply in order and the first that matches wins: when
\* rule 1 and rule 2 do not match but some segment is exactly a known category
\* name, parse_category_from_media_ref returns that category rather than nothing,
\* also when downloaded_media/<system> or <system> is followed by a segment that
\* is not a known category.
C10_ThirdRuleAfterFirstTwoFail ==
    (call.op = "parse_category" /\ call.done /\ call.text # ""
        /\ ~Rule1Matches /\ ~Rule2Matches
        /\ \E n \in 1..Len(CallSegments) : CallSegments[n] \in CategorySet)
    => (call.out \in CategorySet /\ \E n \in 1..Len(CallSegments) : CallSegments[n] = call.out)

(***************************************************************************)
(* Properties of the expected categories                                   *)
(***************************************************************************)
\* the categories the text children of the game of the call resolve to
ResolvedCats ==
    {parse_category_from_media_ref(call.game[n].text, call.system) :
        n \in {m \in 1..Len(call.game) : call.game[m].text # None}} \ {None}

\* the resolved categories that are in the list passed in
KeptCats == ResolvedCats \cap Range(call.effective_categories)

\* C11: a category resolved from the media references of an entry is kept only
\* if it is in the list passed in (the effective categories); when at least one
\* is kept the expected set is exactly the kept categories, and when none is kept
\* it is the full effective list; so the expected set is a subset of the
\* effective categories and is empty only when the effective list is empty.
C11_ExpectedIsKeptOrEffective ==
    (call.op = "expected_categories" /\ call.done) =>
        /\ KeptCats # {} => (Range(call.out) = KeptCats /\ Len(call.out) = Cardinality(KeptCats))
        /\ KeptCats = {} => call.out = call.effective_categories
        /\ Range(call.out) \subseteq Range(call.effective_categories)
        /\ call.out = <<>> => call.effective_categories = <<>>

\* an entry whose only resolved category is not selected: the fallback applies
C11_Witness ==
    /\ call.op = "expected_categories" /\ call.done
    /\ ResolvedCats # {} /\ KeptCats = {}
    /\ call.out = call.effective_categories /\ call.out # <<>>

(***************************************************************************)
(* Properties of the category loop of a retained entry                     *)
(***************************************************************************)
\* matched and missed of one retained entry partition its expected categories
Partitioned(r) ==
    /\ Range(r.matched) \cup Range(r.missed) = Range(r.expected)
    /\ Range(r.matched) \cap Range(r.missed) = {}
    /\ Len(r.matched) + Len(r.missed) = Len(r.expected)

C12_SyncPass ==
    (pc = "sync" /\ next_system <= Len(systems)) =>
        /\ Len(last'.report) = stats'.games_kept - stats.games_kept
        /\ \A n \in 1..Len(last'.report) : Partitioned(last'.report[n])
        /\ stats'.media_categories_attempted
              = stats.media_categories_attempted + SumLen(last'.report, "expected")
        /\ stats'.media_categories_missing
              = stats.media_categories_missing + SumLen(last'.report, "missed")

SameSizeInPlace ==
    /\ call.dst \in DOMAIN call.sd_root.media
    /\ call.src.exists
    /\ call.dst \notin call.sd_root.stat_error
    /\ call.sd_root.media[call.dst].size = call.src.size

\* C13: if the destination exists, the source exists and both sizes can be read
\* and are equal, copy_file returns "skipped" and leaves the destination contents
\* unchanged, even when they differ from the source; in every other case,
\* a failed size read included, it returns "copied" and, outside preview, the
\* destination then holds the source contents; a second call on the same pair
\* right after a real copy returns "skipped".
C13_CopyFileSkipHeuristic ==
    (call.op = "copy_file" /\ call.done) =>
        /\ SameSizeInPlace =>
              (call.out = "skipped" /\ call.sd_after.media = call.sd_root.media)
        /\ ~SameSizeInPlace =>
              /\ call.out = "copied"
              /\ ~call.dry_run =>
                    /\ call.dst \in DOMAIN call.sd_after.media
                    /\ call.sd_after.media[call.dst].data = call.src.data
                    /\ call.again = "skipped"

(***************************************************************************)
(* Agreement of the audit with the sync                                    *)
(***************************************************************************)
\* no two entries of the catalog of the system share a normalized filename key
NoSharedKey(system) ==
    \A m, n \in 1..Len(nas_master_root.gamelists[system].games) :
        (m # n /\ ~NoPathText(nas_master_root.gamelists[system].games[m])
               /\ ~NoPathText(nas_master_root.gamelists[system].games[n]))
        => normalize_rom_filename_from_xml(FindPath(nas_master_root.gamelists[system].games[m]))
             # normalize_rom_filename_from_xml(FindPath(nas_master_root.gamelists[system].games[n]))

\* the audit records items of one system agree with the report of its sync pass
GapsAgree(items, present_in_master, report, missing_added, kept) ==
    /\ {<<items[n].rom_filename, items[n].missing_categories>> :
            n \in {m \in 1..Len(items) : items[m].in_master_gamelist
                                           /\ items[m].missing_categories # <<>>}}
         = {<<report[n].rom_filename, report[n].missed>> :
               n \in {m \in 1..Len(report) : report[m].missed # <<>>}}
    /\ \A n \in 1..Len(items) :
          items[n].in_master_gamelist => items[n].missing_categories # <<>>
    /\ SumLen(items, "missing_categories") = missing_added
    /\ present_in_master = kept

\* the audit of the system, run on its own
AuditAlone(system) ==
    AuditSystem(system, nas_master_root, sd_root, media_categories, fuzzy_media_match, <<>>)

\* the sync pass of the system, run on its own
SyncAlone(system) ==
    filter_gamelist_and_sync_media(system, nas_master_root, sd_root, media_categories,
                                   dry_run, backup_gamelist_flag, fuzzy_media_match, RunStats0)

\* the report of a sync pass agrees with the result a of the audit run on its own
AgreesWithAudit(a, report, missing_added, kept) ==
    GapsAgree(a.all_items, a.summary.present_in_master, report, missing_added, kept)

\* the records of an audit agree with the result y of the sync pass run on its own
AgreesWithSync(items, present_in_master, y) ==
    GapsAgree(items, present_in_master, y.report, y.stats.media_categories_missing,
              y.stats.games_kept)

C14_SyncPass ==
    (pc = "sync" /\ next_system <= Len(systems) /\ Filterable(systems[next_system])
        /\ NoSharedKey(systems[next_system])) =>
        AgreesWithAudit(AuditAlone(systems[next_system]), last'.report,
                        stats'.media_categories_missing - stats.media_categories_missing,
                        stats'.games_kept - stats.games_kept)

C14_AuditPass ==
    (pc = "audit" /\ next_system <= Len(systems) /\ Filterable(systems[next_system])
        /\ NoSharedKey(systems[next_system])) =>
        AgreesWithSync(AddedItems, last'.summary.present_in_master,
                       SyncAlone(systems[next_system]))

\* C14: for the same system, catalog, on-disk ROM set, source artwork tree,
\* selected categories and fuzzy flag, and no two catalog entries sharing a
\* normalized filename key, an on-disk ROM has an audit record with
\* in_master_gamelist = true and missing_categories = M (M not empty) if and only
\* if the sync retains the entry of that ROM and computes the missed list M for
\* it; the missing categories over the audit records add up to what the sync
\* adds to media_categories_missing, and the ROMs the audit counts as present in
\* the catalog are as many as the games the sync keeps.
C14_AuditAndSyncAgreeOnGaps == [][C14_SyncPass /\ C14_AuditPass]_vars

\* an audit of two catalogued ROMs under fuzzy matching, with a record that
\* names a missing category
C14_Witness ==
    /\ audit_mode /\ fuzzy_media_match /\ last.system = "nes" /\ last.outcome = "ok"
    /\ NoSharedKey("nes")
    /\ last.summary.present_in_master = 2
    /\ \E n \in 1..Len(all_items) :
          all_items[n].in_master_gamelist /\ all_items[n].missing_categories # <<>>

====
